---------------------------- MODULE Spec2Model ----------------------------
(***************************************************************************)
(* Model of schemdraw/elements/switches.py: the switch symbol elements.    *)
(* Every constructor builds an ordered list of segments, a mapping from    *)
(* anchor names to points and a parameter mapping.                         *)
(*                                                                         *)
(* Lengths and coordinates are integers in hundredths of a drawing unit    *)
(* (.12 is 12, 1 is 100).  Angles in degrees that the code passes through  *)
(* unchanged (theta1, theta2 of an arc) are plain integers.  The numbers   *)
(* the rotary switch computes are exact: a rational is [n, d] in lowest    *)
(* terms, and a real is [q, p], the number q + p*(pi/180) with q and p     *)
(* rational.  Since pi is irrational the pair is unique, so a value in     *)
(* degrees (p) and a value in radians (q) are never confused.  Python's    *)
(* floating point rounding is not modelled.                                *)
(***************************************************************************)
EXTENDS Integers, Sequences, FiniteSets

VARIABLES kind, args, segments, anchors, params, status

vars == <<kind, args, segments, anchors, params, status>>

(***************************************************************************)
(* Bounds of the model.                                                    *)
(***************************************************************************)
MaxN == 10           \* contact counts n of a rotary switch are -MaxNeg..MaxN
MaxNeg == 2
MaxK == 5            \* largest number of samples linspace returns

(***************************************************************************)
(* Exact rational arithmetic (Python float arithmetic, without rounding).  *)
(***************************************************************************)
Abs(x) == IF x < 0 THEN -x ELSE x

RECURSIVE GCD(_, _)
GCD(a, b) == IF b = 0 THEN a ELSE GCD(b, a % b)

Rat(num, den) ==
    LET s == IF den < 0 THEN -1 ELSE 1
        g == GCD(Abs(num), Abs(den))
    IN  [n |-> (s * num) \div g, d |-> (s * den) \div g]

RInt(i) == [n |-> i, d |-> 1]
RAdd(a, b) == Rat(a.n * b.d + b.n * a.d, a.d * b.d)
RNeg(a) == [n |-> -a.n, d |-> a.d]
RMul(a, b) == Rat(a.n * b.n, a.d * b.d)
RLess(a, b) == a.n * b.d < b.n * a.d
RMin(a, b) == IF RLess(b, a) THEN b ELSE a
\* a - m*floor(a/m) for an integer m > 0
RMod(a, m) == Rat(a.n % (m * a.d), a.d)

(***************************************************************************)
(* Reals of the form q + p*(pi/180).                                       *)
(***************************************************************************)
Num(x) == [q |-> RInt(x), p |-> RInt(0)]
NumR(r) == [q |-> r, p |-> RInt(0)]
Add(a, b) == [q |-> RAdd(a.q, b.q), p |-> RAdd(a.p, b.p)]
Neg(a) == [q |-> RNeg(a.q), p |-> RNeg(a.p)]
Scale(a, r) == [q |-> RMul(a.q, r), p |-> RMul(a.p, r)]

\* math.radians(x): x * pi/180, for a plain number x
radians(x) == [q |-> RInt(0), p |-> x.q]

\* the real that is deg degrees, as an angle in radians
Degrees(deg) == [q |-> RInt(0), p |-> deg]

(***************************************************************************)
(* Points.  A cartesian point is [x, y]; gap is the pen-up marker of a     *)
(* path.  "default" is the line style of a Segment built without ls, and   *)
(* the string "None" is the action None.                                   *)
(***************************************************************************)
Pt(x, y) == [x |-> x, y |-> y]
gap == [gap |-> TRUE]
Point(p) == p

sw_dot_r == 12

None == <<>>

(***************************************************************************)
(* The segment primitives, as the values their constructors are given.     *)
(***************************************************************************)
Segment(path, ls) == [type |-> "Segment", path |-> path, ls |-> ls]
SegmentCircle(center, radius) ==
    [type |-> "SegmentCircle", center |-> center, radius |-> radius]
SegmentArc(center, width, height, theta1, theta2, arrow) ==
    [type |-> "SegmentArc", center |-> center, width |-> width,
     height |-> height, theta1 |-> theta1, theta2 |-> theta2, arrow |-> arrow]
SegmentArrow(tail, head, zorder) ==
    [type |-> "SegmentArrow", tail |-> tail, head |-> head, zorder |-> zorder]

(***************************************************************************)
(* An element: segments, anchors, params and how construction ended.       *)
(***************************************************************************)
NoAnchors == [k \in {} |-> Pt(0, 0)]
NoParams == [k \in {} |-> 0]

Put(f, key, val) ==
    [k \in DOMAIN f \cup {key} |-> IF k = key THEN val ELSE f[k]]

Key(name) == <<name, 0>>
KeyN(name, i) == <<name, i>>

Element_init ==
    [segments |-> <<>>, anchors |-> NoAnchors, params |-> NoParams,
     status |-> "ok"]

append(e, seg) == [e EXCEPT !.segments = Append(e.segments, seg)]
setAnchor(e, key, p) == [e EXCEPT !.anchors = Put(e.anchors, key, p)]
setParam(e, key, v) == [e EXCEPT !.params = Put(e.params, key, v)]

(***************************************************************************)
(* Switch                                                                  *)
(***************************************************************************)
\* mutant: the arrow styles of the two arcs exchanged
Switch_arcs_swapped(e, action) ==
    LET e1 == IF action = "open"
              THEN append(e, SegmentArc(Pt(40, 10), 50, 75, -10, 70, "cw"))
              ELSE e
    IN  IF action = "close"
        THEN append(e1, SegmentArc(Pt(40, 25), 50, 75, -10, 70, "ccw"))
        ELSE e1

Switch_arcs(e, action) ==
    LET e1 == IF action = "open"
              THEN append(e, SegmentArc(Pt(40, 10), 50, 75, -10, 70, "ccw"))
              ELSE e
    IN  IF action = "close"
        THEN append(e1, SegmentArc(Pt(40, 25), 50, 75, -10, 70, "cw"))
        ELSE e1

Switch_init(action) ==
    LET e0 == Element_init
        e1 == append(e0, Segment(<<Pt(0, 0), gap, Pt(sw_dot_r * 2, 10),
                                   Pt(80, 45), gap, Pt(100, 0)>>, "default"))
        e2 == append(e1, SegmentCircle(Pt(sw_dot_r, 0), sw_dot_r))
        e3 == append(e2, SegmentCircle(Pt(100 - sw_dot_r, 0), sw_dot_r))
    IN  Switch_arcs(e3, action)

(***************************************************************************)
(* SwitchSpdt                                                              *)
(***************************************************************************)
\* mutant: the action is not forwarded to Switch
SwitchSpdt_super_dropped(action) == Switch_init("None")

SwitchSpdt_super(action) == Switch_init(action)

SwitchSpdt_init(action) ==
    LET e0 == SwitchSpdt_super(action)
        e1 == append(e0, SegmentCircle(Pt(100 - sw_dot_r, 70), sw_dot_r))
        e2 == setAnchor(e1, Key("a"), Point(Pt(0, 0)))
        e3 == setAnchor(e2, Key("b"), Point(Pt(100, 0)))
    IN  setAnchor(e3, Key("c"), Point(Pt(100, 70)))

(***************************************************************************)
(* SwitchSpdt2                                                             *)
(***************************************************************************)
\* mutant: the contact circles centred on the terminals
SwitchSpdt2_contacts_centred(e) ==
    LET e1 == append(e, SegmentCircle(Pt(0, 0), sw_dot_r))
        e2 == append(e1, SegmentCircle(Pt(100, -40), sw_dot_r))
    IN  append(e2, SegmentCircle(Pt(100, 40), sw_dot_r))

SwitchSpdt2_contacts(e) ==
    LET e1 == append(e, SegmentCircle(Pt(sw_dot_r, 0), sw_dot_r))
        e2 == append(e1, SegmentCircle(Pt(100 - sw_dot_r, -40), sw_dot_r))
    IN  append(e2, SegmentCircle(Pt(100 - sw_dot_r, 40), sw_dot_r))

SwitchSpdt2_arcs(e, action) ==
    IF action = "open"
    THEN append(e, SegmentArc(Pt(35, 0), 50, 75, -10, 70, "ccw"))
    ELSE IF action = "close"
    THEN append(e, SegmentArc(Pt(30, 0), 50, 75, -10, 70, "cw"))
    ELSE e

SwitchSpdt2_init(action) ==
    LET e0 == Element_init
        e1 == append(e0, Segment(<<Pt(0, 0), gap, Pt(sw_dot_r * 2, 10),
                                   Pt(70, 25), gap, Pt(100, 40)>>, "default"))
        e2 == SwitchSpdt2_contacts(e1)
        e3 == setAnchor(e2, Key("a"), Point(Pt(0, 0)))
        e4 == setAnchor(e3, Key("b"), Point(Pt(100, 40)))
        e5 == setAnchor(e4, Key("c"), Point(Pt(100, -40)))
        e6 == SwitchSpdt2_arcs(e5, action)
    IN  setParam(e6, "drop", Pt(100, 40))

(***************************************************************************)
(* Button                                                                  *)
(***************************************************************************)
Button_init(nc) ==
    LET e0 == Element_init
        e1 == IF nc
              THEN append(e0, Segment(
                     <<Pt(0, 0), gap, Pt(sw_dot_r, -sw_dot_r - 5),
                       Pt(100 - sw_dot_r, -sw_dot_r - 5), gap,
                       Pt(50, -sw_dot_r - 5), Pt(50, sw_dot_r + 15), gap,
                       Pt(100, 0)>>, "default"))
              ELSE append(e0, Segment(
                     <<Pt(0, 0), gap, Pt(sw_dot_r, 30), Pt(100 - sw_dot_r, 30),
                       gap, Pt(50, 30), Pt(50, 50), gap, Pt(100, 0)>>, "default"))
        e2 == append(e1, SegmentCircle(Pt(sw_dot_r, 0), sw_dot_r))
    IN  append(e2, SegmentCircle(Pt(100 - sw_dot_r, 0), sw_dot_r))

(***************************************************************************)
(* SwitchDpst and SwitchDpdt                                               *)
(***************************************************************************)
\* mutant: the link is drawn whatever the flag
SwitchDpst_link_always(e, link, yofst) ==
    append(e, Segment(<<Pt(50, yofst + 25), Pt(50, 20)>>, ":"))

SwitchDpst_link(e, link, yofst) ==
    IF link
    THEN append(e, Segment(<<Pt(50, yofst + 25), Pt(50, 20)>>, ":"))
    ELSE e

SwitchDpst_init(link) ==
    LET yofst == -100
        e0 == Element_init
        e1 == append(e0, Segment(<<Pt(0, 0), gap, Pt(sw_dot_r * 2, 10),
                                   Pt(80, 45), gap, Pt(100, 0)>>, "default"))
        e2 == append(e1, SegmentCircle(Pt(sw_dot_r, 0), sw_dot_r))
        e3 == append(e2, SegmentCircle(Pt(100 - sw_dot_r, 0), sw_dot_r))
        e4 == append(e3, Segment(<<Pt(0, yofst), gap,
                                   Pt(sw_dot_r * 2, yofst + 10),
                                   Pt(80, yofst + 45), gap,
                                   Pt(100, yofst)>>, "default"))
        e5 == append(e4, SegmentCircle(Pt(sw_dot_r, yofst), sw_dot_r))
        e6 == append(e5, SegmentCircle(Pt(100 - sw_dot_r, yofst), sw_dot_r))
        e7 == SwitchDpst_link(e6, link, yofst)
        e8 == setAnchor(e7, KeyN("p", 1), Pt(0, 0))
        e9 == setAnchor(e8, KeyN("t", 1), Pt(100, 0))
        e10 == setAnchor(e9, KeyN("p", 2), Pt(0, yofst))
    IN  setAnchor(e10, KeyN("t", 2), Pt(100, yofst))

SwitchDpdt_link(e, link, yofst) ==
    IF link
    THEN append(e, Segment(<<Pt(50, yofst + 25), Pt(50, 20)>>, ":"))
    ELSE e

SwitchDpdt_init(link) ==
    LET yofst == -140
        e0 == Element_init
        e1 == append(e0, Segment(<<Pt(0, 0), gap, Pt(sw_dot_r * 2, 10),
                                   Pt(70, 25), gap, Pt(100, 40)>>, "default"))
        e2 == append(e1, SegmentCircle(Pt(sw_dot_r, 0), sw_dot_r))
        e3 == append(e2, SegmentCircle(Pt(100 - sw_dot_r, -40), sw_dot_r))
        e4 == append(e3, SegmentCircle(Pt(100 - sw_dot_r, 40), sw_dot_r))
        e5 == append(e4, Segment(<<Pt(0, yofst), gap,
                                   Pt(sw_dot_r * 2, yofst + 10),
                                   Pt(70, yofst + 25), gap,
                                   Pt(100, yofst + 40)>>, "default"))
        e6 == append(e5, SegmentCircle(Pt(sw_dot_r, yofst), sw_dot_r))
        e7 == append(e6, SegmentCircle(Pt(100 - sw_dot_r, yofst - 40), sw_dot_r))
        e8 == append(e7, SegmentCircle(Pt(100 - sw_dot_r, yofst + 40), sw_dot_r))
        e9 == SwitchDpdt_link(e8, link, yofst)
        e10 == setAnchor(e9, KeyN("p", 1), Pt(0, 0))
        e11 == setAnchor(e10, KeyN("t", 1), Pt(100, 40))
        e12 == setAnchor(e11, KeyN("t", 2), Pt(100, -40))
        e13 == setAnchor(e12, KeyN("p", 2), Pt(0, yofst))
        e14 == setAnchor(e13, KeyN("t", 3), Pt(100, yofst + 40))
    IN  setAnchor(e14, KeyN("t", 4), Pt(100, yofst - 40))

(***************************************************************************)
(* SwitchReed                                                              *)
(***************************************************************************)
\* util.linspace(start, stop, num): num evenly spaced values, ends included
linspace(start, stop, num) ==
    [j \in 1..num |->
        Add(start, Scale(Add(stop, Neg(start)), Rat(j - 1, num - 1)))]

\* A coordinate c + a*f(t), f one of cos and sin, for an angle t of
\* [-pi/2, pi/2]; cos is even, sin is odd, and the values at 0 and pi/2 are
\* exact, so that equal coordinates are equal records.
Coord(c, a, f, t) == [c |-> c, a |-> a, f |-> f, t |-> t]
Const(c) == Coord(c, 0, "", Num(0))
AbsAngle(t) == IF RLess(t.p, RInt(0)) THEN Neg(t) ELSE t

MulCos(a, t) ==
    LET u == AbsAngle(t)
    IN  IF u.p = RInt(90) THEN Const(0)
        ELSE IF u.p = RInt(0) THEN Const(a)
        ELSE Coord(0, a, "cos", u)

MulSin(a, t) ==
    LET u == AbsAngle(t)
        s == IF u = t THEN a ELSE -a
    IN  IF u.p = RInt(90) THEN Const(s)
        ELSE IF u.p = RInt(0) THEN Const(0)
        ELSE Coord(0, s, "sin", u)

\* 1 - k
OneMinus(k) == [k EXCEPT !.c = 100 - k.c, !.a = -k.a]

Reverse(s) == [j \in 1..Len(s) |-> s[Len(s) + 1 - j]]
zip(x, y) == [j \in 1..Len(x) |-> Pt(x[j], y[j])]

SwitchReed_x(x1, x2) == x1 \o x2 \o <<x1[1]>>
\* mutant: the right half not reversed
SwitchReed_y_forward(y1) == y1 \o y1 \o <<y1[1]>>

SwitchReed_y(y1) == y1 \o Reverse(y1) \o <<y1[1]>>

SwitchReed_init(num) ==
    LET e0 == Element_init
        e1 == append(e0, Segment(<<Pt(0, 0), Pt(85, 15), gap, Pt(80, 0)>>,
                                 "default"))
        r == 30
        th == linspace(Degrees(RInt(-90)), Degrees(RInt(90)), num)
        x1 == [j \in 1..Len(th) |-> MulCos(-r, th[j])]
        y1 == [j \in 1..Len(th) |-> MulSin(r, th[j])]
        x2 == [j \in 1..Len(x1) |-> OneMinus(x1[j])]
        x == SwitchReed_x(x1, x2)
        y == SwitchReed_y(y1)
    IN  append(e1, Segment(zip(x, y), "default"))

(***************************************************************************)
(* SwitchRotary                                                            *)
(***************************************************************************)
\* (radius*cos(t), radius*sin(t)).  Two such points are equal exactly when
\* the records are: a zero radius is the origin, a negative radius is the
\* opposite direction, the angle counts modulo 2*pi, and on the axes the
\* point is a cartesian one.
PolarPoint(radius, t) ==
    LET turn == IF radius < 0 THEN RInt(180) ELSE RInt(0)
        p == RMod(RAdd(t.p, turn), 360)
        r == Abs(radius)
    IN  IF radius = 0 THEN Pt(0, 0)
        ELSE IF t.q.n = 0 /\ p = RInt(0) THEN Pt(r, 0)
        ELSE IF t.q.n = 0 /\ p = RInt(90) THEN Pt(0, r)
        ELSE IF t.q.n = 0 /\ p = RInt(180) THEN Pt(-r, 0)
        ELSE IF t.q.n = 0 /\ p = RInt(270) THEN Pt(0, -r)
        ELSE [r |-> r, q |-> t.q, p |-> p]

\* mutant: the full turn divided by n instead of n+1
default_dtheta_n(n) == NumR(RMin(RInt(35), Rat(360, n)))

\* min(35, 360/(n+1)), for n # -1
default_dtheta(n) == NumR(RMin(RInt(35), Rat(360, n + 1)))

\* mutant: the fan centred for n+1 contacts
default_theta0_n(dtheta, n) == Scale(Neg(dtheta), Rat(n, 2))

\* -dtheta * (n-1)/2
default_theta0(dtheta, n) == Scale(Neg(dtheta), Rat(n - 1, 2))

\* the angle the code uses for a theta0 the caller supplied
given_theta0(theta0) == Num(theta0)

\* t = theta0 + dtheta * i
contact_angle(theta0, dtheta, i) == Add(theta0, Scale(dtheta, RInt(i)))

\* mutant: arrowcontact taken as 1-based
SwitchRotary_arrow_onebased(e, i, t, arrowlen, arrowcontact) ==
    IF i + 1 = arrowcontact
    THEN append(e, SegmentArrow(Pt(0, 0), PolarPoint(arrowlen, t), 2))
    ELSE e

SwitchRotary_arrow(e, i, t, arrowlen, arrowcontact) ==
    IF i = arrowcontact
    THEN append(e, SegmentArrow(Pt(0, 0), PolarPoint(arrowlen, t), 2))
    ELSE e

SwitchRotary_contact(e, i, t, radius) ==
    LET xy == PolarPoint(radius, t)
        e1 == append(e, SegmentCircle(xy, sw_dot_r))
    IN  setAnchor(e1, KeyN("T", i + 1), xy)

RECURSIVE SwitchRotary_loop(_, _, _, _, _, _, _, _)
SwitchRotary_loop(e, i, n, theta0, dtheta, radius, arrowlen, arrowcontact) ==
    IF i >= n THEN e
    ELSE LET t == contact_angle(theta0, dtheta, i)
             e1 == SwitchRotary_contact(e, i, t, radius)
             e2 == SwitchRotary_arrow(e1, i, t, arrowlen, arrowcontact)
         IN  SwitchRotary_loop(e2, i + 1, n, theta0, dtheta, radius,
                               arrowlen, arrowcontact)

SwitchRotary_init(n, dtheta, theta0, radius, arrowlen, arrowcontact) ==
    LET e0 == Element_init
        e1 == setParam(e0, "fill", "bg")
        e2 == setParam(e1, "zorder", 4)
        e3 == append(e2, SegmentCircle(Pt(0, 0), sw_dot_r))
        e4 == setAnchor(e3, Key("P"), Pt(0, 0))
    IN  IF dtheta = None /\ n + 1 = 0
        THEN [e4 EXCEPT !.status = "ZeroDivisionError"]
        ELSE LET d0 == IF dtheta = None THEN default_dtheta(n)
                       ELSE Num(dtheta[1])
                 d == radians(d0)
                 t0 == IF theta0 = None THEN default_theta0(d, n)
                       ELSE given_theta0(theta0[1])
             IN  SwitchRotary_loop(e4, 0, n, t0, d, radius, arrowlen,
                                   arrowcontact)

(***************************************************************************)
(* The state machine: one element is constructed, once, from the arguments *)
(* of its constructor.                                                     *)
(***************************************************************************)
ActionIn == {"None", "open", "close", "toggle"}
DthetaIn == {None, <<20>>, <<90>>}
Theta0In == {None, <<0>>, <<30>>, <<-45>>}
RadiusIn == {100, 0, -50}
ArrowlenIn == {75, 120}

NoArgs == [none |-> TRUE]

Init ==
    /\ kind = "none"
    /\ args = NoArgs
    /\ segments = <<>>
    /\ anchors = NoAnchors
    /\ params = NoParams
    /\ status = "ok"

Built(k, a, e) ==
    /\ kind' = k
    /\ args' = a
    /\ segments' = e.segments
    /\ anchors' = e.anchors
    /\ params' = e.params
    /\ status' = e.status

NewSwitch ==
    /\ kind = "none"
    /\ \E action \in ActionIn :
        Built("Switch", [action |-> action], Switch_init(action))

NewSwitchSpdt ==
    /\ kind = "none"
    /\ \E action \in ActionIn :
        Built("SwitchSpdt", [action |-> action], SwitchSpdt_init(action))

NewSwitchSpdt2 ==
    /\ kind = "none"
    /\ \E action \in ActionIn :
        Built("SwitchSpdt2", [action |-> action], SwitchSpdt2_init(action))

NewButton ==
    /\ kind = "none"
    /\ \E nc \in BOOLEAN : Built("Button", [nc |-> nc], Button_init(nc))

NewSwitchDpst ==
    /\ kind = "none"
    /\ \E link \in BOOLEAN :
        Built("SwitchDpst", [link |-> link], SwitchDpst_init(link))

NewSwitchDpdt ==
    /\ kind = "none"
    /\ \E link \in BOOLEAN :
        Built("SwitchDpdt", [link |-> link], SwitchDpdt_init(link))

NewSwitchReed ==
    /\ kind = "none"
    /\ \E num \in 2..MaxK :
        Built("SwitchReed", [num |-> num], SwitchReed_init(num))

NewSwitchRotary ==
    /\ kind = "none"
    /\ \E n \in (-MaxNeg)..MaxN, dtheta \in DthetaIn, theta0 \in Theta0In,
       radius \in RadiusIn, arrowlen \in ArrowlenIn,
       arrowcontact \in -1..MaxN :
        Built("SwitchRotary",
              [n |-> n, dtheta |-> dtheta, theta0 |-> theta0,
               radius |-> radius, arrowlen |-> arrowlen,
               arrowcontact |-> arrowcontact],
              SwitchRotary_init(n, dtheta, theta0, radius, arrowlen,
                                arrowcontact))

Next ==
    \/ NewSwitch
    \/ NewSwitchSpdt
    \/ NewSwitchSpdt2
    \/ NewButton
    \/ NewSwitchDpst
    \/ NewSwitchDpdt
    \/ NewSwitchReed
    \/ NewSwitchRotary

Spec == Init /\ [][Next]_vars

(***************************************************************************)
(* Reading the constructed element.                                        *)
(***************************************************************************)
IsCircle(s) == s.type = "SegmentCircle"
IsArc(s) == s.type = "SegmentArc"
IsArrow(s) == s.type = "SegmentArrow"
IsDotted(s) == s.type = "Segment" /\ s.ls = ":"
NotDotted(s) == ~IsDotted(s)

Circles == SelectSeq(segments, IsCircle)
Arcs == SelectSeq(segments, IsArc)
Arrows == SelectSeq(segments, IsArrow)
Centers(cs) == [j \in 1..Len(cs) |-> cs[j].center]

T(i) == KeyN("T", i)
ContactKeys(n) == {T(i + 1) : i \in 0..(n - 1)}

IsCart(pt) == "x" \in DOMAIN pt
\* the direction of a point other than the origin, as an angle in [0, 2*pi)
AngleOf(pt) ==
    IF ~IsCart(pt) THEN [q |-> pt.q, p |-> pt.p]
    ELSE IF pt.y = 0 /\ pt.x > 0 THEN Degrees(RInt(0))
    ELSE IF pt.x = 0 /\ pt.y > 0 THEN Degrees(RInt(90))
    ELSE IF pt.y = 0 THEN Degrees(RInt(180))
    ELSE Degrees(RInt(270))
\* the distance of a point PolarPoint built from the origin
Length(pt) == IF IsCart(pt) THEN Abs(pt.x) + Abs(pt.y) ELSE pt.r

Rotary == kind = "SwitchRotary"
RotaryDefaults == Rotary /\ args.dtheta = None /\ args.theta0 = None

\* min(35, 360/(n+1)) in degrees and the angle of contact i of the default fan,
\* in degrees, written out for n >= 1
FanStep(n) == IF 35 * (n + 1) <= 360 THEN RInt(35) ELSE Rat(360, n + 1)
FanAngle(n, i) ==
    RAdd(RNeg(RMul(FanStep(n), Rat(n - 1, 2))), RMul(FanStep(n), RInt(i)))

(***************************************************************************)
(* C1: SwitchRotary with dtheta and theta0 omitted, n >= 1, any radius:    *)
(* construction completes; there are n+1 circles, the first at the origin  *)
(* with anchor P; contact i has its circle and its anchor T{i+1} at the    *)
(* point of angle theta0 + dtheta*i degrees at the radius, where dtheta is *)
(* min(35, 360/(n+1)) and theta0 is -dtheta*(n-1)/2; for n = 4 the angles  *)
(* are -52.5, -17.5, 17.5 and 52.5 degrees.                                *)
(***************************************************************************)
C1_DefaultFan ==
    (RotaryDefaults /\ args.n >= 1) =>
        /\ status = "ok"
        /\ Len(Circles) = args.n + 1
        /\ Circles[1].center = Pt(0, 0)
        /\ DOMAIN anchors = {Key("P")} \cup ContactKeys(args.n)
        /\ anchors[Key("P")] = Pt(0, 0)
        /\ \A i \in 0..(args.n - 1) :
              LET xy == PolarPoint(args.radius, Degrees(FanAngle(args.n, i)))
              IN  /\ Circles[i + 2].center = xy
                  /\ Circles[i + 2].radius = sw_dot_r
                  /\ anchors[T(i + 1)] = xy
        /\ args.n = 4 =>
              \A i \in 0..3 :
                 anchors[T(i + 1)] =
                    PolarPoint(args.radius, Degrees(Rat(-105 + 70 * i, 2)))

C1_Witness ==
    /\ RotaryDefaults /\ args.n = MaxN /\ args.radius = 100
    /\ status = "ok"
    /\ T(MaxN) \in DOMAIN anchors
    /\ ~IsCart(anchors[T(MaxN)])

(***************************************************************************)
(* C2: SwitchRotary with dtheta and theta0 both supplied, in degrees:      *)
(* contact i is placed at the angle theta0 + dtheta*i degrees at the       *)
(* radius, for every supplied theta0.                                      *)
(***************************************************************************)
C2_GivenAnglesInDegrees ==
    (Rotary /\ status = "ok" /\ args.dtheta # None /\ args.theta0 # None) =>
        \A i \in 0..(args.n - 1) :
            anchors[T(i + 1)] =
                PolarPoint(args.radius,
                           Degrees(RInt(args.theta0[1] + args.dtheta[1] * i)))

(***************************************************************************)
(* C3: SwitchRotary has exactly one arrow segment if 0 <= arrowcontact < n *)
(* and none otherwise, without an error for n >= 1; the arrow starts at    *)
(* the origin, has length arrowlen, and ends at (arrowlen*cos(a),          *)
(* arrowlen*sin(a)) for the angle a at which contact arrowcontact (anchor  *)
(* T{arrowcontact+1}) was placed.                                          *)
(***************************************************************************)
\* the angle a for which anchor T{i+1} is (radius*cos(a), radius*sin(a))
PlacedAngle(i) ==
    Add(AngleOf(anchors[T(i + 1)]),
        IF args.radius < 0 THEN Degrees(RInt(180)) ELSE Degrees(RInt(0)))

C3_PointerArrow ==
    Rotary =>
        /\ args.n >= 1 => status = "ok"
        /\ status = "ok" =>
              LET inRange == 0 <= args.arrowcontact
                               /\ args.arrowcontact < args.n
              IN  /\ Len(Arrows) = IF inRange THEN 1 ELSE 0
                  /\ inRange =>
                        /\ Arrows[1].tail = Pt(0, 0)
                        /\ Length(Arrows[1].head) = args.arrowlen
                        /\ args.radius # 0 =>
                              Arrows[1].head =
                                 PolarPoint(args.arrowlen,
                                            PlacedAngle(args.arrowcontact))

C3_Witness ==
    /\ Rotary /\ status = "ok"
    /\ args.n = 4 /\ args.arrowcontact = 2 /\ args.radius = 100
    /\ Len(Arrows) = 1
    /\ Arrows[1].head = PolarPoint(args.arrowlen, AngleOf(anchors[T(3)]))

(***************************************************************************)
(* C4: no constructor raises an exception, whatever its parameters: every  *)
(* construction completes and yields an element.                           *)
(***************************************************************************)
C4_NoConstructorRaises == kind # "none" => status = "ok"

(***************************************************************************)
(* C5: Switch without action, or with one other than open and close, has   *)
(* exactly 3 segments (the lever polyline, two circles) and no arc; with   *)
(* open it has exactly one arc, with arrow ccw; with close exactly one,    *)
(* with arrow cw; it never has both.                                       *)
(***************************************************************************)
C5_SwitchSegments ==
    kind = "Switch" =>
        /\ status = "ok"
        /\ Len(segments) >= 3
        /\ segments[1].type = "Segment"
        /\ IsCircle(segments[2]) /\ IsCircle(segments[3])
        /\ Len(segments) = 3 + Len(Arcs)
        /\ Len(Arcs) <= 1
        /\ args.action \notin {"open", "close"} => Len(Arcs) = 0
        /\ args.action = "open" => Len(Arcs) = 1 /\ Arcs[1].arrow = "ccw"
        /\ args.action = "close" => Len(Arcs) = 1 /\ Arcs[1].arrow = "cw"

C5_Witness ==
    /\ kind = "Switch" /\ args.action = "open"
    /\ Len(segments) = 4 /\ IsArc(segments[4])

(***************************************************************************)
(* C6: SwitchSpdt, for every action, has exactly the anchors a = (0,0),    *)
(* b = (1,0), c = (1,0.7), and its segments are those of Switch for the    *)
(* same action followed by exactly one more contact circle.                *)
(***************************************************************************)
C6_SpdtExtendsSwitch ==
    kind = "SwitchSpdt" =>
        LET base == Switch_init(args.action).segments
        IN  /\ status = "ok"
            /\ DOMAIN anchors = {Key("a"), Key("b"), Key("c")}
            /\ anchors[Key("a")] = Pt(0, 0)
            /\ anchors[Key("b")] = Pt(100, 0)
            /\ anchors[Key("c")] = Pt(100, 70)
            /\ Len(segments) = Len(base) + 1
            /\ SubSeq(segments, 1, Len(base)) = base
            /\ IsCircle(segments[Len(segments)])
            /\ Len(Arcs) = IF args.action \in {"open", "close"} THEN 1 ELSE 0

C6_Witness ==
    /\ kind = "SwitchSpdt" /\ args.action = "close"
    /\ Len(segments) = 5
    /\ IsArc(segments[4]) /\ IsCircle(segments[5])

(***************************************************************************)
(* C7: in SwitchDpst and SwitchDpdt the dotted link segment is present     *)
(* exactly when link is true; every other segment and every anchor         *)
(* (p1,t1,p2,t2, resp. p1,t1,t2,p2,t3,t4) is the same for both values.     *)
(***************************************************************************)
C7_Link ==
    kind \in {"SwitchDpst", "SwitchDpdt"} =>
        LET with == IF kind = "SwitchDpst" THEN SwitchDpst_init(TRUE)
                    ELSE SwitchDpdt_init(TRUE)
            names == IF kind = "SwitchDpst"
                     THEN {KeyN("p", 1), KeyN("t", 1), KeyN("p", 2),
                           KeyN("t", 2)}
                     ELSE {KeyN("p", 1), KeyN("t", 1), KeyN("t", 2),
                           KeyN("p", 2), KeyN("t", 3), KeyN("t", 4)}
        IN  /\ status = "ok"
            /\ Len(SelectSeq(segments, IsDotted)) = IF args.link THEN 1 ELSE 0
            /\ SelectSeq(segments, NotDotted)
                 = SelectSeq(with.segments, NotDotted)
            /\ Len(SelectSeq(segments, NotDotted))
                 = IF kind = "SwitchDpst" THEN 6 ELSE 8
            /\ DOMAIN anchors = names
            /\ anchors = with.anchors

C7_Witness ==
    /\ kind = "SwitchDpst" /\ args.link = FALSE
    /\ Len(segments) = 6
    /\ Len(SelectSeq(segments, IsDotted)) = 0

(***************************************************************************)
(* C8: the envelope polyline of SwitchReed has 2k+1 points for the k       *)
(* sample angles linspace returns, and is closed; its first k points are   *)
(* the left semicircle, from the bottom to the top; the next k are the     *)
(* right semicircle from the top to the bottom, so that the outline is     *)
(* continuous; the final point repeats the first.                          *)
(***************************************************************************)
\* the j-th of k angles from -90 to 90 degrees, evenly spaced
SampleAngle(k, j) == Degrees(Rat(-90 * (k - 1) + 180 * (j - 1), k - 1))

C8_Envelope ==
    kind = "SwitchReed" =>
        LET k == args.num
            env == segments[2].path
        IN  /\ status = "ok"
            /\ Len(segments) = 2
            /\ Len(env) = 2 * k + 1
            /\ env[1] = env[2 * k + 1]
            /\ \A j \in 1..k :
                  /\ env[j] = Pt(MulCos(-30, SampleAngle(k, j)),
                                 MulSin(30, SampleAngle(k, j)))
                  /\ env[k + j] = Pt(OneMinus(MulCos(-30, SampleAngle(k, j))),
                                     MulSin(30, Neg(SampleAngle(k, j))))
            /\ env[1] = Pt(Const(0), Const(-30))
            /\ env[k] = Pt(Const(0), Const(30))
            /\ env[k + 1] = Pt(Const(100), Const(30))
            /\ env[2 * k] = Pt(Const(100), Const(-30))

C8_Witness ==
    /\ kind = "SwitchReed" /\ args.num = MaxK
    /\ Len(segments[2].path) = 2 * MaxK + 1
    /\ segments[2].path[2].x.a # 0

(***************************************************************************)
(* C9 as stated: SwitchSpdt2, for every action, has exactly three contact  *)
(* circles, located at (0,0), (1,-.4) and (1,.4); its lever polyline runs  *)
(* from (0,0) to (1,.4); its drop point is (1,.4).                         *)
(***************************************************************************)
Spdt2Terminals == <<Pt(0, 0), Pt(100, -40), Pt(100, 40)>>

Spdt2Lever ==
    /\ segments[1].type = "Segment"
    /\ segments[1].path[1] = Pt(0, 0)
    /\ segments[1].path[Len(segments[1].path)] = Pt(100, 40)
    /\ params["drop"] = Pt(100, 40)

C9_CirclesAtTerminals ==
    kind = "SwitchSpdt2" =>
        /\ status = "ok"
        /\ Centers(Circles) = Spdt2Terminals
        /\ Spdt2Lever

(***************************************************************************)
(* C9 amended: SwitchSpdt2, for every action, has exactly three contact    *)
(* circles, of radius sw_dot_r, centred at (sw_dot_r, 0), (1-sw_dot_r,-.4) *)
(* and (1-sw_dot_r, .4): each is moved by its radius along x from the      *)
(* terminal (0,0), (1,-.4), (1,.4), which lies on its rim; the lever       *)
(* polyline runs from (0,0) to (1,.4); the drop point is (1,.4).           *)
(***************************************************************************)
C9_CirclesInsideTerminals ==
    kind = "SwitchSpdt2" =>
        /\ status = "ok"
        /\ Len(Circles) = 3
        /\ Centers(Circles) = <<Pt(sw_dot_r, 0), Pt(100 - sw_dot_r, -40),
                                Pt(100 - sw_dot_r, 40)>>
        /\ \A j \in 1..3 :
              /\ Circles[j].radius = sw_dot_r
              /\ Circles[j].center.y = Spdt2Terminals[j].y
              /\ Abs(Circles[j].center.x - Spdt2Terminals[j].x)
                   = Circles[j].radius
        /\ Spdt2Lever

C9_Witness ==
    /\ kind = "SwitchSpdt2" /\ args.action = "open"
    /\ Len(Circles) = 3 /\ Len(Arcs) = 1
    /\ "drop" \in DOMAIN params

(***************************************************************************)
(* C10 as stated: SwitchRotary with dtheta and theta0 omitted, n >= 1: the *)
(* span (n-1)*dtheta is less than 360 degrees minus dtheta; distinct       *)
(* contacts have distinct angles modulo 360 degrees, so that no two        *)
(* contacts or T anchors coincide; the angle of contact i is minus the     *)
(* angle of contact n-1-i.                                                 *)
(***************************************************************************)
\* the angle the constructor computes for contact i of the default fan
FanContactAngle(n, i) ==
    LET d == radians(default_dtheta(n))
    IN  contact_angle(default_theta0(d, n), d, i)

FanAnglesApart ==
    LET n == args.n
        d == radians(default_dtheta(n))
    IN  /\ d.q.n = 0
        /\ RLess(RAdd(RMul(d.p, RInt(n - 1)), d.p), RInt(360))
        /\ \A i, j \in 0..(n - 1) :
              i # j => RMod(FanContactAngle(n, i).p, 360)
                         # RMod(FanContactAngle(n, j).p, 360)
        /\ \A i \in 0..(n - 1) :
              /\ FanContactAngle(n, i).q.n = 0
              /\ FanContactAngle(n, i) = Neg(FanContactAngle(n, n - 1 - i))
              /\ args.radius # 0 =>
                    anchors[T(i + 1)]
                       = PolarPoint(args.radius, FanContactAngle(n, i))

ContactsApart ==
    \A i, j \in 0..(args.n - 1) :
        i # j => /\ anchors[T(i + 1)] # anchors[T(j + 1)]
                 /\ Circles[i + 2].center # Circles[j + 2].center

C10_FanNeverWraps ==
    (RotaryDefaults /\ args.n >= 1) =>
        /\ status = "ok"
        /\ FanAnglesApart
        /\ ContactsApart

(***************************************************************************)
(* C10 amended: as stated, except that no two contacts or T anchors        *)
(* coincide provided the radius is not zero (with radius 0 every contact   *)
(* is at the origin, the angles still being distinct).                     *)
(***************************************************************************)
C10_FanNeverWrapsOffOrigin ==
    (RotaryDefaults /\ args.n >= 1) =>
        /\ status = "ok"
        /\ FanAnglesApart
        /\ args.radius # 0 => ContactsApart

C10_Witness ==
    /\ RotaryDefaults /\ args.n = MaxN /\ args.radius = -50
    /\ status = "ok"
    /\ anchors[T(1)] # anchors[T(MaxN)]

=============================================================================
